---- MODULE Spec2Model ----
(***************************************************************************)
(* The Practice component (recording / transcription / analysis session    *)
(* lifecycle with the face-landmark overlay loop).                         *)
(*                                                                         *)
(* One action is one browser task: an event handler together with the      *)
(* microtask continuations it triggers.  Promises that are settled by the  *)
(* platform (getUserMedia, video.play, the face model download, fetch)     *)
(* are settled by separate actions, so every interleaving of user clicks,  *)
(* recorder events, animation frames and promise settlements is explored.  *)
(*                                                                         *)
(* Every startRecording invocation has an id s in Starts; the stream it    *)
(* acquires, the MediaRecorder it creates and the frame loop it starts     *)
(* carry the same id.  MediaRecorder.start() is called without a timeslice *)
(* (and requestData is never called), so a recorder delivers its data in   *)
(* one dataavailable event, fired in the same task as its stop event.      *)
(***************************************************************************)
EXTENDS Integers, Sequences, FiniteSets, TLC

MaxStarts == 2   \* startRecording invocations explored
MaxBuf    == 1   \* largest size of the data one recorder delivers
MaxErrors == 1   \* InvalidStateErrors of pauseRecording explored

Starts == 1..MaxStarts
\* Stop is offered only in the recording view, which only startRecording
\* opens and stopRecording closes: there are never more stops than starts
Stops  == 1..MaxStarts

NullRef      == 0    \* a ref holding null / analysis === null
EmptyText    == 0    \* the transcript ""
OgTranscript == -1   \* the initial transcript "this is the og transcript"

\* data.transcript returned for the audio of stop k / the summary of it
TextOf(k)    == k
SummaryOf(k) == k

(***************************************************************************)
(* The face status of one frame                                            *)
(*                                                                         *)
(* A score x in [0,1] is held as the integer x * One.  The blend-shape     *)
(* scores drawn are multiples of 1/Res and One is 200 * Res, so the halves *)
(* (avg), the tenths (the weights) and the tenths of tenths (the neutral   *)
(* score) the code computes from them are exact.  Landmark coordinates are *)
(* held in units of 1e-6.                                                   *)
(***************************************************************************)
Res      == 2    \* the blend-shape scores drawn are 0, 1/Res, .., 1
MaxEdits == 2    \* frames drawn differ from a base frame in that many places

One       == 200 * Res
Eps       == 1     \* the 1e-6 added to the eye width
Undefined == -1    \* b[key] of a key the map does not hold

Min(a, b) == IF a <= b THEN a ELSE b
Max(a, b) == IF a >= b THEN a ELSE b
Abs(a)    == IF a >= 0 THEN a ELSE -a

num(v)           == IF v = Undefined THEN 0 ELSE v
avg(a, b)        == (num(a) + num(b)) \div 2
\* clamp without the lower limit: Math.min(hi, n)
clampUpper(n, lo, hi) == Min(hi, n)
clamp(n, lo, hi) == Max(lo, Min(hi, n))
round2(n)        == ((n * 100 + One \div 2) \div One) * (One \div 100)
\* the product of the decimal 0.w and x
tenths(w, x)     == (w * x) \div 10

\* the names emotionScores reads, in the order the detector lists them
KeyOrder ==
  <<"browDownLeft", "browDownRight", "browInnerUp", "browOuterUpLeft",
    "browOuterUpRight", "cheekPuff", "eyeWideLeft", "eyeWideRight",
    "jawOpen", "mouthFrownLeft", "mouthFrownRight", "mouthPressLeft",
    "mouthPressRight", "mouthRollLower", "mouthRollUpper",
    "mouthSmileLeft", "mouthSmileRight", "mouthStretchLeft",
    "mouthStretchRight", "mouthUpperUpLeft", "mouthUpperUpRight",
    "noseSneerLeft", "noseSneerRight">>

\* for (const c of cats) m[c.categoryName] = c.score: a later entry of the
\* same name overwrites an earlier one
toBlendshapeMap(cats) ==
  [name \in {cats[i].categoryName : i \in DOMAIN cats} |->
     LET last == CHOOSE i \in DOMAIN cats :
                   /\ cats[i].categoryName = name
                   /\ \A j \in DOMAIN cats :
                        cats[j].categoryName = name => j <= i
     IN cats[last].score]

\* b[key]
prop(b, key) == IF key \in DOMAIN b THEN b[key] ELSE Undefined

emotionScores(b) ==
  LET smile   == avg(prop(b, "mouthSmileLeft"), prop(b, "mouthSmileRight"))
      frown   == avg(prop(b, "mouthFrownLeft"), prop(b, "mouthFrownRight"))
      press   == avg(prop(b, "mouthPressLeft"), prop(b, "mouthPressRight"))
      stretch == avg(prop(b, "mouthStretchLeft"),
                     prop(b, "mouthStretchRight"))
      upperLipRaise == avg(prop(b, "mouthUpperUpLeft"),
                           prop(b, "mouthUpperUpRight"))
      cheekPuff == num(prop(b, "cheekPuff"))
      jawOpen   == num(prop(b, "jawOpen"))
      eyeWide   == avg(prop(b, "eyeWideLeft"), prop(b, "eyeWideRight"))
      browUp    == Max(num(prop(b, "browInnerUp")),
                       Max(num(prop(b, "browOuterUpLeft")),
                           num(prop(b, "browOuterUpRight"))))
      browDown  == avg(num(prop(b, "browDownLeft")),
                       num(prop(b, "browDownRight")))
      noseSneer == avg(num(prop(b, "noseSneerLeft")),
                       num(prop(b, "noseSneerRight")))
      lipSuck   == avg(num(prop(b, "mouthRollUpper")),
                       num(prop(b, "mouthRollLower")))
      posValence == clamp(tenths(8, smile) + tenths(2, cheekPuff), 0, One)
      negValence == clamp(tenths(6, frown) + tenths(4, press), 0, One)
      arousal    == clamp(tenths(5, jawOpen) + tenths(5, eyeWide)
                            + tenths(4, browUp), 0, One)
      valenceMag == Abs(posValence - negValence)
  IN [happy     |-> clamp(tenths(9, smile) + tenths(2, browUp)
                            - tenths(2, frown), 0, One),
      surprised |-> clamp(tenths(6, jawOpen) + tenths(5, browUp)
                            + tenths(4, eyeWide), 0, One),
      sad       |-> clamp(tenths(7, frown) + tenths(4, lipSuck)
                            + tenths(3, browDown) - tenths(2, smile), 0, One),
      angry     |-> clamp(tenths(6, browDown) + tenths(4, press)
                            + tenths(3, noseSneer) + tenths(2, stretch),
                          0, One),
      disgust   |-> clamp(tenths(7, noseSneer) + tenths(5, upperLipRaise)
                            + tenths(2, browDown), 0, One),
      fear      |-> clamp(tenths(5, eyeWide) + tenths(4, browUp)
                            + tenths(3, jawOpen) + tenths(2, lipSuck),
                          0, One),
      confused  |-> clamp(tenths(6, browUp) + tenths(4, stretch)
                            + tenths(3, press) - tenths(2, smile), 0, One),
      neutral   |-> clamp(One - clamp(tenths(6, arousal)
                                        + tenths(6, valenceMag), 0, One),
                          0, One)]

\* the keys of the object emotionScores returns, in insertion order
Labels ==
  <<"happy", "surprised", "sad", "angry", "disgust", "fear", "confused",
    "neutral">>

\* Object.entries(scores)
entries(scores) ==
  [i \in 1..Len(Labels) |-> [label |-> Labels[i], score |-> scores[Labels[i]]]]

\* a comparator a[1] - b[1]: the entry goes behind the entries that score
\* less or the same
insertAscending(sorted, e) ==
  LET n == Cardinality({i \in 1..Len(sorted) : sorted[i].score <= e.score})
  IN SubSeq(sorted, 1, n) \o <<e>> \o SubSeq(sorted, n + 1, Len(sorted))

\* one step of the stable sort with the comparator b[1] - a[1]: the entry
\* goes behind the entries that score more or the same
insertDescending(sorted, e) ==
  LET n == Cardinality({i \in 1..Len(sorted) : sorted[i].score >= e.score})
  IN SubSeq(sorted, 1, n) \o <<e>> \o SubSeq(sorted, n + 1, Len(sorted))

\* .sort((a, b) => b[1] - a[1])
RECURSIVE sort(_)
sort(es) ==
  IF es = <<>> THEN <<>>
  ELSE insertDescending(sort(SubSeq(es, 1, Len(es) - 1)), es[Len(es)])

\* .slice(0, 3)
slice3(es) == SubSeq(es, 1, Min(3, Len(es)))

\* the largest r in lo..hi with r * r <= n
RECURSIVE sqrtBetween(_, _, _)
sqrtBetween(lo, hi, n) ==
  IF lo >= hi THEN lo
  ELSE LET mid == (lo + hi + 1) \div 2
       IN IF mid * mid <= n THEN sqrtBetween(mid, hi, n)
                            ELSE sqrtBetween(lo, mid - 1, n)

\* Math.hypot(dx, dy); exact for the landmark positions drawn
hypot(dx, dy) ==
  LET n == dx * dx + dy * dy IN sqrtBetween(0, Min(n, 46340), n)

dist2D(a, b) == hypot(a.x - b.x, a.y - b.y)

\* openness without the clamp: the bare ratio
opennessUnclamped(pts, top, bot, left, right) ==
  LET dy == dist2D(pts[top], pts[bot])
      w  == dist2D(pts[left], pts[right]) + Eps
  IN ((dy * One) \div w) * 2

openness(pts, top, bot, left, right) ==
  LET dy == dist2D(pts[top], pts[bot])
      w  == dist2D(pts[left], pts[right]) + Eps
  IN clamp(((dy * One) \div w) * 2, 0, One)

\* the landmark indices of the left and the right eye
EyeL == [top |-> 159, bot |-> 145, left |-> 33, right |-> 133]
EyeR == [top |-> 386, bot |-> 374, left |-> 362, right |-> 263]

eyeOpenFromLandmarks(r) ==
  IF Len(r.faceLandmarks) = 0
    THEN [leftOpen |-> 0, rightOpen |-> 0]
    ELSE LET pts == r.faceLandmarks[1]
         IN [leftOpen  |-> openness(pts, EyeL.top, EyeL.bot, EyeL.left,
                                    EyeL.right),
             rightOpen |-> openness(pts, EyeR.top, EyeR.bot, EyeR.left,
                                    EyeR.right)]

\* the status shown for "no face": the initial state, rerecord and the
\* else branch of the loop
DashStatus ==
  [emotion |-> "--", confidence |-> 0, top3 |-> <<>>, leftOpen |-> 0,
   rightOpen |-> 0]

\* the argument of setFaceStatus in the loop, for the detector output r
faceStatusOf(r) ==
  IF Len(r.faceBlendshapes) >= 1
    THEN LET b      == toBlendshapeMap(r.faceBlendshapes[1].categories)
             scores == emotionScores(b)
             eyes   == eyeOpenFromLandmarks(r)
             sorted == slice3(sort(entries(scores)))
         IN [emotion    |-> IF Len(sorted) >= 1 THEN sorted[1].label
                                                ELSE "neutral",
             confidence |-> IF Len(sorted) >= 1 THEN sorted[1].score ELSE 0,
             top3       |-> sorted,
             leftOpen   |-> round2(eyes.leftOpen),
             rightOpen  |-> round2(eyes.rightOpen)]
    ELSE DashStatus

(***************************************************************************)
(* Detector outputs drawn as frames                                        *)
(***************************************************************************)

\* the detector found no face
NoFaceRes == [faceBlendshapes |-> <<>>, faceLandmarks |-> <<>>]

Frame(cats, lms) ==
  [faceBlendshapes |-> <<[categories |-> cats]>>, faceLandmarks |-> lms]

\* every category at the score v
AllAt(v) ==
  [i \in 1..Len(KeyOrder) |-> [categoryName |-> KeyOrder[i], score |-> v]]

Scores == {v * 200 : v \in 0..Res}

\* eyelid landmarks are drawn from the corners of a 0.003 x 0.004
\* rectangle, eye-corner landmarks from those of a 0.012 x 0.016 one: all
\* distances between two of them are whole numbers of units
LandmarkIdx == {EyeL.top, EyeL.bot, EyeL.left, EyeL.right,
                EyeR.top, EyeR.bot, EyeR.left, EyeR.right}
Lids == {EyeL.top, EyeL.bot, EyeR.top, EyeR.bot}
Positions(i) ==
  IF i \in Lids
    THEN {[x |-> x, y |-> y] : x \in {0, 3000}, y \in {0, 4000}}
    ELSE {[x |-> x, y |-> y] : x \in {0, 12000}, y \in {0, 16000}}

\* open eyes 0.012 wide, the lids 0.004 apart
BasePts ==
  [i \in LandmarkIdx |->
     IF i \in {EyeL.bot, EyeR.bot} THEN [x |-> 0, y |-> 4000]
     ELSE IF i \in {EyeL.right, EyeR.right} THEN [x |-> 12000, y |-> 0]
     ELSE [x |-> 0, y |-> 0]]

\* all scores 0, all scores 1, and a face without any category
BaseFrames ==
  {Frame(AllAt(0), <<BasePts>>), Frame(AllAt(One), <<BasePts>>),
   Frame(<<>>, <<BasePts>>)}

\* the frame the lifecycle draws for a detected face
NeutralFace == Frame(AllAt(0), <<BasePts>>)
TickFrames  == {NoFaceRes, NeutralFace}

RemoveAt(s, i) == SubSeq(s, 1, i - 1) \o SubSeq(s, i + 1, Len(s))

\* the frames one edit away from the frame r (a frame with a face): one
\* score changed, one category dropped or added, one landmark moved, or
\* the landmarks missing
Variants(r) ==
  LET cats == r.faceBlendshapes[1].categories
      lms  == r.faceLandmarks
      held == {cats[i].categoryName : i \in DOMAIN cats}
  IN {Frame([cats EXCEPT ![i].score = v], lms) :
        i \in DOMAIN cats, v \in Scores}
     \cup {Frame(RemoveAt(cats, i), lms) : i \in DOMAIN cats}
     \cup {Frame(Append(cats, [categoryName |-> KeyOrder[j], score |-> v]),
                 lms) :
             j \in {n \in DOMAIN KeyOrder : KeyOrder[n] \notin held},
             v \in Scores}
     \cup (IF lms = <<>> THEN {}
           ELSE UNION {{Frame(cats, <<[lms[1] EXCEPT ![i] = p]>>) :
                          p \in Positions(i)} : i \in LandmarkIdx})
     \cup {Frame(cats, <<>>)}

VARIABLES
  \* React state
  isRecording, isPaused, isRecordingComplete, chunks, transcript, loading,
  analysis, analysisLoading, faceStatus,
  \* refs
  mediaRecorderRef, streamRef, chunksRef, faceLandmarkerRef, rafRef,
  \* the component is mounted
  mounted,
  \* startRecording invocations and what they created
  nStarts, startPc, streamLive, recState, recPending,
  \* stopRecording invocations
  nStops, stopPc, stopMr, stopSession, stopBlob,
  \* the argument of the summarizeTranscript call of each stop
  sumArg,
  \* pending animation-frame callbacks (by loop id), alert dialogs raised,
  \* InvalidStateErrors thrown out of pauseRecording
  rafPending, alerts, pauseErrors,
  \* the detector output of the frame last processed by the loop, and how
  \* many edits away from a base frame it was drawn
  res, frameEdits,
  \* the prompt selector: the fetched list, the selected prompt (state of
  \* Practice), and how far the selector has got
  QUESTIONS, question, promptPc,
  \* the number of calls of FaceLandmarker.createFromOptions so far
  nCreates,
  \* history: the fragments each recorder delivered; a rerecord / a device
  \* release by stopRecording happened since the last startRecording
  recDelivered, sinceRerecord, sinceRelease

uiVars   == <<isRecording, isPaused, isRecordingComplete, transcript, loading,
              analysis, analysisLoading>>
fragVars == <<chunks, chunksRef, recDelivered>>
recVars  == <<recState, recPending>>
loopVars == <<rafRef, rafPending>>
stopVars == <<nStops, stopPc, stopMr, stopSession, stopBlob, sumArg>>
histVars == <<sinceRerecord, sinceRelease>>
promptVars == <<QUESTIONS, question, promptPc>>
vars == <<isRecording, isPaused, isRecordingComplete, chunks, transcript,
          loading, analysis, analysisLoading, faceStatus, mediaRecorderRef,
          streamRef, chunksRef, faceLandmarkerRef, rafRef, mounted, nStarts,
          startPc, streamLive, recState, recPending, nStops, stopPc,
          stopMr, stopSession, stopBlob, sumArg, rafPending, alerts,
          pauseErrors, res, frameEdits, QUESTIONS, question, promptPc,
          nCreates,
          recDelivered, sinceRerecord, sinceRelease>>

Active == {"recording", "paused"}

\* the three views of the render function
IdleView      == mounted /\ ~isRecording /\ ~isRecordingComplete
RecordingView == mounted /\ isRecording /\ ~isRecordingComplete
ResultsView   == mounted /\ isRecordingComplete

\* videoRef.current and canvasRef.current are set exactly while the
\* recording view is rendered
VideoShown == RecordingView

InitSession ==
  /\ isRecording = FALSE /\ isPaused = FALSE /\ isRecordingComplete = FALSE
  /\ chunks = <<>> /\ transcript = OgTranscript /\ loading = FALSE
  /\ analysis = NullRef /\ analysisLoading = FALSE /\ faceStatus = DashStatus
  /\ mediaRecorderRef = NullRef /\ streamRef = NullRef /\ chunksRef = <<>>
  /\ faceLandmarkerRef = FALSE /\ nCreates = 0 /\ rafRef = NullRef
  /\ mounted = TRUE
  /\ nStarts = 0
  /\ startPc = [s \in Starts |-> "none"]
  /\ streamLive = [s \in Starts |-> FALSE]
  /\ recState = [s \in Starts |-> "none"]
  /\ recPending = [s \in Starts |-> FALSE]
  /\ nStops = 0
  /\ stopPc = [k \in Stops |-> "none"]
  /\ stopMr = [k \in Stops |-> NullRef]
  /\ stopSession = [k \in Stops |-> 0]
  /\ stopBlob = [k \in Stops |-> <<>>]
  /\ sumArg = [k \in Stops |-> NullRef]
  /\ rafPending = {}
  /\ alerts = 0
  /\ pauseErrors = 0
  /\ res = NoFaceRes /\ frameEdits = 0
  /\ recDelivered = [s \in Starts |-> <<>>]
  /\ sinceRerecord = FALSE /\ sinceRelease = FALSE

\* the selector has loaded a one-prompt list and its mount effect has run
Init ==
  /\ InitSession
  /\ QUESTIONS = <<1>> /\ question = 1 /\ promptPc = "ready"

(***************************************************************************)
(* Helpers shared by the handlers                                          *)
(***************************************************************************)

\* stopFaceLoop: cancel the callback rafRef names, clear rafRef
LoopAfterStop == rafPending \ {rafRef}

\* streamRef.current?.getTracks().forEach(t => t.stop())
LiveAfterTrackStop(live, ref) ==
  IF ref = NullRef THEN live ELSE [live EXCEPT ![ref] = FALSE]

\* a recorder whose tracks have all ended is inactivated by the platform:
\* its state becomes inactive and its dataavailable + stop task is queued
StateAfterTrackStop(rs, ref) ==
  IF ref # NullRef /\ rs[ref] \in Active
    THEN [rs EXCEPT ![ref] = "inactive"] ELSE rs

PendingAfterTrackStop(rs, rp, ref) ==
  IF ref # NullRef /\ rs[ref] \in Active
    THEN [rp EXCEPT ![ref] = TRUE] ELSE rp

\* mr.stop(): no effect on an inactive recorder
StateAfterStop(rs, mr) ==
  IF mr # NullRef /\ rs[mr] \in Active
    THEN [rs EXCEPT ![mr] = "inactive"] ELSE rs

PendingAfterStop(rs, rp, mr) ==
  IF mr # NullRef /\ rs[mr] \in Active
    THEN [rp EXCEPT ![mr] = TRUE] ELSE rp

(***************************************************************************)
(* startRecording                                                          *)
(***************************************************************************)

\* startRecording without `chunksRef.current = []`: the fragments of the
\* previous session stay in the ref
startRecordingKeepsRef ==
  /\ IdleView \/ ResultsView
  /\ nStarts < MaxStarts
  /\ nStarts' = nStarts + 1
  /\ startPc' = [startPc EXCEPT ![nStarts + 1] = "gum"]
  /\ isRecording' = TRUE
  /\ isRecordingComplete' = FALSE
  /\ isPaused' = FALSE
  /\ chunks' = <<>>
  /\ transcript' = EmptyText
  /\ analysis' = NullRef
  /\ analysisLoading' = FALSE
  /\ sinceRerecord' = FALSE
  /\ sinceRelease' = FALSE
  /\ UNCHANGED <<loading, faceStatus, res, frameEdits, promptVars,
                 mediaRecorderRef, streamRef, chunksRef, faceLandmarkerRef,
                 nCreates, mounted, streamLive, recVars, stopVars, loopVars,
                 alerts, pauseErrors, recDelivered>>

\* startRecording without setIsRecordingComplete(false)
startRecordingKeepsComplete ==
  /\ IdleView \/ ResultsView
  /\ nStarts < MaxStarts
  /\ nStarts' = nStarts + 1
  /\ startPc' = [startPc EXCEPT ![nStarts + 1] = "gum"]
  /\ isRecording' = TRUE
  /\ UNCHANGED isRecordingComplete
  /\ isPaused' = FALSE
  /\ chunks' = <<>>
  /\ chunksRef' = <<>>
  /\ transcript' = EmptyText
  /\ analysis' = NullRef
  /\ analysisLoading' = FALSE
  /\ sinceRerecord' = FALSE
  /\ sinceRelease' = FALSE
  /\ UNCHANGED <<loading, faceStatus, res, frameEdits, promptVars,
                 mediaRecorderRef, streamRef, faceLandmarkerRef, nCreates,
                 mounted, streamLive, recVars, stopVars, loopVars, alerts,
                 pauseErrors, recDelivered>>

\* the synchronous head of startRecording, up to `await getUserMedia(...)`
startRecording ==
  /\ IdleView \/ ResultsView
  /\ nStarts < MaxStarts
  /\ nStarts' = nStarts + 1
  /\ startPc' = [startPc EXCEPT ![nStarts + 1] = "gum"]
  /\ isRecording' = TRUE
  /\ isRecordingComplete' = FALSE
  /\ isPaused' = FALSE
  /\ chunks' = <<>>
  /\ chunksRef' = <<>>
  /\ transcript' = EmptyText
  /\ analysis' = NullRef
  /\ analysisLoading' = FALSE
  /\ sinceRerecord' = FALSE
  /\ sinceRelease' = FALSE
  /\ UNCHANGED <<loading, faceStatus, res, frameEdits, promptVars,
                 mediaRecorderRef, streamRef, faceLandmarkerRef, nCreates,
                 mounted, streamLive, recVars, stopVars, loopVars, alerts,
                 pauseErrors, recDelivered>>

\* startFaceLoop: returns early without the video and canvas elements,
\* otherwise requests the first frame (a loop already running is kept)
startFaceLoop(s) ==
  IF VideoShown
    THEN rafPending' = rafPending \cup {s} /\ rafRef' = s
    ELSE UNCHANGED loopVars

\* new MediaRecorder(audioStream); ondataavailable = ...; start().
\* start() throws on a stream whose tracks have all ended.
startMediaRecorder(s, live) ==
  /\ mediaRecorderRef' = s
  /\ recState' = [recState EXCEPT ![s] = IF live THEN "recording"
                                                  ELSE "inactive"]
  /\ UNCHANGED recPending

\* the tail of startRecording after `await ensureFaceLandmarker()`
finishStart(s, live) ==
  /\ startFaceLoop(s)
  /\ startMediaRecorder(s, live)
  /\ startPc' = [startPc EXCEPT ![s] = "done"]

\* ensureFaceLandmarker: returns at once when the model exists, otherwise
\* awaits FilesetResolver.forVisionTasks
ensureFaceLandmarker(s, live) ==
  IF faceLandmarkerRef
    THEN finishStart(s, live)
    ELSE /\ startPc' = [startPc EXCEPT ![s] = "fileset"]
         /\ UNCHANGED <<mediaRecorderRef, recVars, loopVars>>

\* getUserMedia resolves: streamRef.current = stream; with a video element
\* await video.play(), else go on to ensureFaceLandmarker
GumOk(s) ==
  /\ startPc[s] = "gum"
  /\ streamLive' = [streamLive EXCEPT ![s] = TRUE]
  /\ streamRef' = s
  /\ IF VideoShown
       THEN /\ startPc' = [startPc EXCEPT ![s] = "play"]
            /\ UNCHANGED <<mediaRecorderRef, recVars, loopVars>>
       ELSE ensureFaceLandmarker(s, TRUE)
  /\ UNCHANGED <<uiVars, fragVars, faceStatus, res, frameEdits, promptVars,
                 faceLandmarkerRef, nCreates, mounted, nStarts, stopVars,
                 alerts, pauseErrors, histVars>>

\* getUserMedia rejects: startRecording has no handler, the rejection is
\* left unhandled and nothing else runs
GumFail(s) ==
  /\ startPc[s] = "gum"
  /\ startPc' = [startPc EXCEPT ![s] = "gumfailed"]
  /\ UNCHANGED <<uiVars, fragVars, faceStatus, res, frameEdits, promptVars,
                 mediaRecorderRef, streamRef, faceLandmarkerRef, nCreates,
                 mounted, nStarts, streamLive, recVars, stopVars, loopVars,
                 alerts, pauseErrors, histVars>>

\* video.play() resolves
PlayOk(s) ==
  /\ startPc[s] = "play"
  /\ ensureFaceLandmarker(s, streamLive[s])
  /\ UNCHANGED <<uiVars, fragVars, faceStatus, res, frameEdits, promptVars,
                 streamRef, faceLandmarkerRef, nCreates, mounted, nStarts,
                 streamLive, stopVars, alerts, pauseErrors, histVars>>

\* FilesetResolver.forVisionTasks resolves: createFromOptions is awaited
FilesetOk(s) ==
  /\ startPc[s] = "fileset"
  /\ startPc' = [startPc EXCEPT ![s] = "create"]
  /\ nCreates' = nCreates + 1
  /\ UNCHANGED <<uiVars, fragVars, faceStatus, res, frameEdits, promptVars,
                 mediaRecorderRef, streamRef, faceLandmarkerRef,
                 mounted, nStarts, streamLive, recVars, stopVars, loopVars,
                 alerts, pauseErrors, histVars>>

\* FaceLandmarker.createFromOptions resolves
CreateOk(s) ==
  /\ startPc[s] = "create"
  /\ faceLandmarkerRef' = TRUE
  /\ finishStart(s, streamLive[s])
  /\ UNCHANGED <<uiVars, fragVars, faceStatus, res, frameEdits, promptVars,
                 streamRef, nCreates, mounted, nStarts, streamLive, stopVars, alerts,
                 pauseErrors, histVars>>

\* video.play(), the fileset download or the model creation rejects
AwaitFail(s) ==
  /\ startPc[s] \in {"play", "fileset", "create"}
  /\ startPc' = [startPc EXCEPT ![s] = "failed"]
  /\ UNCHANGED <<uiVars, fragVars, faceStatus, res, frameEdits, promptVars,
                 mediaRecorderRef, streamRef, faceLandmarkerRef, nCreates,
                 mounted, nStarts, streamLive, recVars, stopVars, loopVars,
                 alerts, pauseErrors, histVars>>

(***************************************************************************)
(* pauseRecording, rerecord                                                *)
(***************************************************************************)

\* pauseRecording that also stops the capture tracks when it pauses
pauseRecordingReleasing ==
  /\ RecordingView
  /\ mediaRecorderRef # NullRef
  /\ IF recState[mediaRecorderRef] \in Active
       THEN /\ recState' = [recState EXCEPT ![mediaRecorderRef] =
                              IF isPaused THEN "recording" ELSE "paused"]
            /\ isPaused' = ~isPaused
            /\ streamLive' = IF isPaused THEN streamLive
                             ELSE LiveAfterTrackStop(streamLive, streamRef)
            /\ UNCHANGED pauseErrors
       ELSE /\ pauseErrors < MaxErrors
            /\ pauseErrors' = pauseErrors + 1
            /\ UNCHANGED <<recState, isPaused, streamLive>>
  /\ UNCHANGED <<isRecording, isRecordingComplete, transcript, loading,
                 analysis, analysisLoading, fragVars, faceStatus, res,
                 frameEdits, promptVars, mediaRecorderRef, streamRef,
                 faceLandmarkerRef, nCreates, mounted, nStarts, startPc,
                 recPending, stopVars, loopVars, alerts, histVars>>

\* the Pause/Resume click.  Without a recorder the handler returns at once
\* (no step).  resume() on a paused and pause() on a recording recorder
\* switch its state (each is a no-op on a recorder already in the target
\* state); both throw InvalidStateError on an inactive recorder, which
\* ends the handler before setIsPaused.
pauseRecording ==
  /\ RecordingView
  /\ mediaRecorderRef # NullRef
  /\ IF recState[mediaRecorderRef] \in Active
       THEN /\ recState' = [recState EXCEPT ![mediaRecorderRef] =
                              IF isPaused THEN "recording" ELSE "paused"]
            /\ isPaused' = ~isPaused
            /\ UNCHANGED pauseErrors
       ELSE /\ pauseErrors < MaxErrors
            /\ pauseErrors' = pauseErrors + 1
            /\ UNCHANGED <<recState, isPaused>>
  /\ UNCHANGED <<isRecording, isRecordingComplete, transcript, loading,
                 analysis, analysisLoading, fragVars, faceStatus, res,
                 frameEdits, promptVars, mediaRecorderRef, streamRef,
                 faceLandmarkerRef, nCreates, mounted, nStarts, startPc,
                 streamLive, recPending, stopVars, loopVars, alerts, histVars>>

\* rerecord without `chunksRef.current = []`
rerecordKeepsRef ==
  /\ RecordingView
  /\ LET rs1 == StateAfterStop(recState, mediaRecorderRef)
         rp1 == PendingAfterStop(recState, recPending, mediaRecorderRef)
     IN /\ recState' = StateAfterTrackStop(rs1, streamRef)
        /\ recPending' = PendingAfterTrackStop(rs1, rp1, streamRef)
  /\ rafPending' = LoopAfterStop
  /\ rafRef' = NullRef
  /\ streamLive' = LiveAfterTrackStop(streamLive, streamRef)
  /\ isRecording' = FALSE
  /\ isPaused' = FALSE
  /\ chunks' = <<>>
  /\ UNCHANGED chunksRef
  /\ transcript' = EmptyText
  /\ faceStatus' = DashStatus
  /\ sinceRerecord' = TRUE
  /\ UNCHANGED <<res, frameEdits, promptVars>>
  /\ UNCHANGED <<isRecordingComplete, loading, analysis, analysisLoading,
                 mediaRecorderRef, streamRef, faceLandmarkerRef, nCreates,
                 mounted, nStarts, startPc, stopVars, alerts, pauseErrors,
                 recDelivered, sinceRelease>>

rerecord ==
  /\ RecordingView
  /\ LET rs1 == StateAfterStop(recState, mediaRecorderRef)
         rp1 == PendingAfterStop(recState, recPending, mediaRecorderRef)
     IN /\ recState' = StateAfterTrackStop(rs1, streamRef)
        /\ recPending' = PendingAfterTrackStop(rs1, rp1, streamRef)
  /\ rafPending' = LoopAfterStop
  /\ rafRef' = NullRef
  /\ streamLive' = LiveAfterTrackStop(streamLive, streamRef)
  /\ isRecording' = FALSE
  /\ isPaused' = FALSE
  /\ chunks' = <<>>
  /\ chunksRef' = <<>>
  /\ transcript' = EmptyText
  /\ faceStatus' = DashStatus
  /\ sinceRerecord' = TRUE
  /\ UNCHANGED <<res, frameEdits, promptVars>>
  /\ UNCHANGED <<isRecordingComplete, loading, analysis, analysisLoading,
                 mediaRecorderRef, streamRef, faceLandmarkerRef, nCreates,
                 mounted, nStarts, startPc, stopVars, alerts, pauseErrors,
                 recDelivered, sinceRelease>>

(***************************************************************************)
(* stopRecording                                                           *)
(***************************************************************************)

\* stopRecording that never awaits the stop event of the recorder
AwaitsStoppedNever(mr) == FALSE

\* `if (mr && mr.state !== "inactive")`: stopRecording stops the recorder
\* and awaits its stop event
AwaitsStopped(mr) == mr # NullRef /\ recState[mr] \in Active

\* the part of stopRecording from stopFaceLoop() to the call of
\* transcribeAudio(blob): cancel the loop, stop the tracks of
\* streamRef.current, build the blob from chunksRef.current, setLoading(true)
releaseAndTranscribe(k, rs, rp, frags) ==
  /\ rafPending' = LoopAfterStop
  /\ rafRef' = NullRef
  /\ streamLive' = LiveAfterTrackStop(streamLive, streamRef)
  /\ recState' = StateAfterTrackStop(rs, streamRef)
  /\ recPending' = PendingAfterTrackStop(rs, rp, streamRef)
  /\ stopBlob' = [stopBlob EXCEPT ![k] = frags]
  /\ loading' = TRUE
  /\ sinceRelease' = TRUE

\* the Stop click: the head of stopRecording up to `await stopped`, or up
\* to `await transcribeAudio(blob)` when there is no active recorder
stopRecording ==
  /\ RecordingView
  /\ LET k   == nStops + 1
         mr  == mediaRecorderRef
         rs1 == StateAfterStop(recState, mr)
         rp1 == PendingAfterStop(recState, recPending, mr)
     IN /\ nStops' = k
        /\ stopMr' = [stopMr EXCEPT ![k] = mr]
        /\ stopSession' = [stopSession EXCEPT ![k] = nStarts]
        /\ IF AwaitsStopped(mr)
             THEN /\ stopPc' = [stopPc EXCEPT ![k] = "flush"]
                  /\ recState' = rs1
                  /\ recPending' = rp1
                  /\ UNCHANGED <<loopVars, streamLive, stopBlob, loading,
                                 sinceRelease>>
             ELSE /\ stopPc' = [stopPc EXCEPT ![k] = "transcribe"]
                  /\ releaseAndTranscribe(k, rs1, rp1, chunksRef)
  /\ isRecording' = FALSE
  /\ isRecordingComplete' = TRUE
  /\ UNCHANGED <<isPaused, transcript, analysis, analysisLoading, fragVars,
                 faceStatus, res, frameEdits, promptVars, mediaRecorderRef,
                 streamRef, faceLandmarkerRef, nCreates, mounted, nStarts,
                 startPc, sumArg, alerts, pauseErrors, sinceRerecord>>

\* a handler that puts the delivered data in front: [event.data, ...prev]
pushChunkFront(frags, frag) == <<frag>> \o frags

\* chunksRef.current.push(event.data) / setChunks(prev => [...prev, data])
pushChunk(frags, frag) == Append(frags, frag)

\* a handler that appends whatever is delivered
keepsAny(frag) == TRUE

\* `if (event.data.size > 0)` of ondataavailable
keeps(frag) == frag.size > 0

\* the task a stopped (or track-ended) recorder has queued: dataavailable
\* with the data it gathered (n units, possibly none), then stop; a
\* stopRecording awaiting that stop event continues in the same task
RecorderStopTask(r, n) ==
  /\ recPending[r]
  /\ LET frag  == [rec |-> r, size |-> n]
         keep  == keeps(frag)
         ref1  == IF keep THEN pushChunk(chunksRef, frag) ELSE chunksRef
         rp1   == [recPending EXCEPT ![r] = FALSE]
         waits == {k \in Stops : stopPc[k] = "flush" /\ stopMr[k] = r}
     IN /\ chunksRef' = ref1
        /\ chunks' = IF keep THEN pushChunk(chunks, frag) ELSE chunks
        /\ recDelivered' = IF keep
                             THEN [recDelivered EXCEPT ![r] = Append(@, frag)]
                             ELSE recDelivered
        /\ IF waits # {}
             THEN LET k == CHOOSE w \in waits : TRUE
                  IN /\ stopPc' = [stopPc EXCEPT ![k] = "transcribe"]
                     /\ releaseAndTranscribe(k, recState, rp1, ref1)
             ELSE /\ recPending' = rp1
                  /\ UNCHANGED <<stopPc, stopBlob, loopVars, streamLive,
                                 recState, loading, sinceRelease>>
  /\ UNCHANGED <<isRecording, isPaused, isRecordingComplete, transcript,
                 analysis, analysisLoading, faceStatus, res, frameEdits,
                 promptVars, mediaRecorderRef, streamRef, faceLandmarkerRef,
                 nCreates, mounted, nStarts, startPc, nStops, stopMr,
                 stopSession, sumArg, alerts, pauseErrors, sinceRerecord>>

\* TranscribeOk with the transcript held back until the summary is in:
\* nothing is shown when transcribeAudio resolves
TranscribeOkBlocked(k) ==
  /\ stopPc[k] = "transcribe"
  /\ stopPc' = [stopPc EXCEPT ![k] = "summarize"]
  /\ analysis' = NullRef
  /\ analysisLoading' = TRUE
  /\ sumArg' = [sumArg EXCEPT ![k] = TextOf(k)]
  /\ UNCHANGED <<isRecording, isPaused, isRecordingComplete, transcript,
                 loading, fragVars, faceStatus, res, frameEdits, promptVars,
                 mediaRecorderRef, streamRef, faceLandmarkerRef, nCreates,
                 mounted, nStarts, startPc, streamLive, recVars, nStops,
                 stopMr, stopSession, stopBlob, loopVars, alerts, pauseErrors,
                 histVars>>

\* TranscribeOk with summarizeTranscript(transcript): the argument is the
\* transcript state the handler closed over, not the returned text
TranscribeOkStaleArg(k) ==
  /\ stopPc[k] = "transcribe"
  /\ stopPc' = [stopPc EXCEPT ![k] = "summarize"]
  /\ transcript' = TextOf(k)
  /\ loading' = FALSE
  /\ analysis' = NullRef
  /\ analysisLoading' = TRUE
  /\ sumArg' = [sumArg EXCEPT ![k] = transcript]
  /\ UNCHANGED <<isRecording, isPaused, isRecordingComplete, fragVars,
                 faceStatus, res, frameEdits, promptVars, mediaRecorderRef,
                 streamRef, faceLandmarkerRef, nCreates, mounted, nStarts,
                 startPc, streamLive, recVars, nStops, stopMr, stopSession,
                 stopBlob, loopVars, alerts, pauseErrors, histVars>>

\* transcribeAudio resolves: setTranscript, setLoading(false),
\* setAnalysis(null), setAnalysisLoading(true), and
\* summarizeTranscript(data.transcript) is called
TranscribeOk(k) ==
  /\ stopPc[k] = "transcribe"
  /\ stopPc' = [stopPc EXCEPT ![k] = "summarize"]
  /\ transcript' = TextOf(k)
  /\ loading' = FALSE
  /\ analysis' = NullRef
  /\ analysisLoading' = TRUE
  /\ sumArg' = [sumArg EXCEPT ![k] = TextOf(k)]
  /\ UNCHANGED <<isRecording, isPaused, isRecordingComplete, fragVars,
                 faceStatus, res, frameEdits, promptVars, mediaRecorderRef,
                 streamRef, faceLandmarkerRef, nCreates, mounted, nStarts,
                 startPc, streamLive, recVars, nStops, stopMr, stopSession,
                 stopBlob, loopVars, alerts, pauseErrors, histVars>>

\* a catch block that alerts but leaves the loading flag set
TranscribeFailKeepsLoading(k) ==
  /\ stopPc[k] = "transcribe"
  /\ stopPc' = [stopPc EXCEPT ![k] = "tfailed"]
  /\ alerts' = alerts + 1
  /\ UNCHANGED <<isRecording, isPaused, isRecordingComplete, transcript,
                 loading, analysis, analysisLoading, fragVars, faceStatus,
                 res, frameEdits, promptVars, mediaRecorderRef, streamRef,
                 faceLandmarkerRef, nCreates, mounted, nStarts, startPc,
                 streamLive, recVars, nStops, stopMr, stopSession, stopBlob,
                 sumArg, loopVars, pauseErrors, histVars>>

\* transcribeAudio throws (response not ok): alert, setLoading(false)
TranscribeFail(k) ==
  /\ stopPc[k] = "transcribe"
  /\ stopPc' = [stopPc EXCEPT ![k] = "tfailed"]
  /\ alerts' = alerts + 1
  /\ loading' = FALSE
  /\ UNCHANGED <<isRecording, isPaused, isRecordingComplete, transcript,
                 analysis, analysisLoading, fragVars, faceStatus, res,
                 frameEdits, promptVars, mediaRecorderRef, streamRef,
                 faceLandmarkerRef, nCreates, mounted, nStarts, startPc,
                 streamLive, recVars, nStops, stopMr, stopSession, stopBlob,
                 sumArg, loopVars, pauseErrors, histVars>>

\* summarizeTranscript resolves: setAnalysis(summary), then the finally
SummarizeOk(k) ==
  /\ stopPc[k] = "summarize"
  /\ stopPc' = [stopPc EXCEPT ![k] = "ok"]
  /\ analysis' = SummaryOf(k)
  /\ analysisLoading' = FALSE
  /\ UNCHANGED <<isRecording, isPaused, isRecordingComplete, transcript,
                 loading, fragVars, faceStatus, res, frameEdits, promptVars,
                 mediaRecorderRef, streamRef, faceLandmarkerRef, nCreates,
                 mounted, nStarts, startPc, streamLive, recVars, nStops,
                 stopMr, stopSession, stopBlob, sumArg, loopVars, alerts,
                 pauseErrors, histVars>>

\* a failure handler that also leaves the results view
SummarizeFailResets(k) ==
  /\ stopPc[k] = "summarize"
  /\ stopPc' = [stopPc EXCEPT ![k] = "sfailed"]
  /\ analysisLoading' = FALSE
  /\ isRecordingComplete' = FALSE
  /\ UNCHANGED <<isRecording, isPaused, transcript, loading, analysis,
                 fragVars, faceStatus, res, frameEdits, promptVars,
                 mediaRecorderRef, streamRef, faceLandmarkerRef, nCreates,
                 mounted, nStarts, startPc, streamLive, recVars, nStops,
                 stopMr, stopSession, stopBlob, sumArg, loopVars, alerts,
                 pauseErrors, histVars>>

\* summarizeTranscript throws: console.error, then the finally
SummarizeFail(k) ==
  /\ stopPc[k] = "summarize"
  /\ stopPc' = [stopPc EXCEPT ![k] = "sfailed"]
  /\ analysisLoading' = FALSE
  /\ UNCHANGED <<isRecording, isPaused, isRecordingComplete, transcript,
                 loading, analysis, fragVars, faceStatus, res, frameEdits,
                 promptVars, mediaRecorderRef, streamRef, faceLandmarkerRef,
                 nCreates, mounted, nStarts, startPc, streamLive, recVars,
                 nStops, stopMr, stopSession, stopBlob, sumArg, loopVars,
                 alerts, pauseErrors, histVars>>

(***************************************************************************)
(* The frame loop, teardown                                                *)
(***************************************************************************)

\* a loop with hysteresis: the emotion shown is kept while the new frame
\* is less confident than the status on display
FaceTickSmoothed(l, r) ==
  /\ l \in rafPending
  /\ rafRef' = l
  /\ IF faceLandmarkerRef /\ VideoShown
       THEN /\ res' = r
            /\ faceStatus' =
                 IF /\ faceStatus # DashStatus
                    /\ faceStatusOf(r).confidence < faceStatus.confidence
                   THEN [faceStatusOf(r) EXCEPT !.emotion = faceStatus.emotion]
                   ELSE faceStatusOf(r)
       ELSE UNCHANGED <<faceStatus, res>>
  /\ UNCHANGED <<uiVars, fragVars, mediaRecorderRef, streamRef,
                 faceLandmarkerRef, nCreates, mounted, nStarts, startPc,
                 streamLive, recVars, stopVars, rafPending, alerts,
                 pauseErrors, histVars>>

\* a loop that feeds the recording: every processed frame is pushed to the
\* fragment sequence
FaceTickFeeding(l, r) ==
  /\ l \in rafPending
  /\ rafRef' = l
  /\ IF faceLandmarkerRef /\ VideoShown
       THEN /\ res' = r /\ faceStatus' = faceStatusOf(r)
            /\ chunksRef' = pushChunk(chunksRef, [rec |-> l, size |-> 0])
       ELSE UNCHANGED <<faceStatus, res, chunksRef>>
  /\ UNCHANGED <<uiVars, chunks, recDelivered, mediaRecorderRef, streamRef,
                 faceLandmarkerRef, nCreates, mounted, nStarts, startPc,
                 streamLive, recVars, stopVars, rafPending, alerts,
                 pauseErrors, histVars>>

\* one animation-frame callback of loop l: without model, video or canvas
\* it only reschedules itself; otherwise it sets the face status from the
\* detector output r of this frame and reschedules itself
FaceTick(l, r) ==
  /\ l \in rafPending
  /\ rafRef' = l
  /\ IF faceLandmarkerRef /\ VideoShown
       THEN res' = r /\ faceStatus' = faceStatusOf(r)
       ELSE UNCHANGED <<faceStatus, res>>
  /\ UNCHANGED <<uiVars, fragVars, mediaRecorderRef, streamRef,
                 faceLandmarkerRef, nCreates, mounted, nStarts, startPc,
                 streamLive, recVars, stopVars, rafPending, alerts,
                 pauseErrors, histVars>>

\* a cleanup that also empties the fragment buffer
UnmountClearing ==
  /\ mounted
  /\ mounted' = FALSE
  /\ rafPending' = LoopAfterStop
  /\ rafRef' = NullRef
  /\ streamLive' = LiveAfterTrackStop(streamLive, streamRef)
  /\ recState' = StateAfterTrackStop(recState, streamRef)
  /\ recPending' = PendingAfterTrackStop(recState, recPending, streamRef)
  /\ chunksRef' = <<>>
  /\ UNCHANGED <<uiVars, chunks, recDelivered, faceStatus, res, frameEdits,
                 promptVars, mediaRecorderRef, streamRef, faceLandmarkerRef,
                 nCreates, nStarts, startPc, stopVars, alerts, pauseErrors,
                 histVars>>

\* the cleanup of the mount effect: stopFaceLoop and stop of the tracks of
\* streamRef.current
Unmount ==
  /\ mounted
  /\ mounted' = FALSE
  /\ rafPending' = LoopAfterStop
  /\ rafRef' = NullRef
  /\ streamLive' = LiveAfterTrackStop(streamLive, streamRef)
  /\ recState' = StateAfterTrackStop(recState, streamRef)
  /\ recPending' = PendingAfterTrackStop(recState, recPending, streamRef)
  /\ UNCHANGED <<uiVars, fragVars, faceStatus, res, frameEdits, promptVars,
                 mediaRecorderRef, streamRef, faceLandmarkerRef, nCreates,
                 nStarts, startPc, stopVars, alerts, pauseErrors, histVars>>

Next ==
  \/ startRecording
  \/ \E s \in Starts : GumOk(s)
  \/ \E s \in Starts : GumFail(s)
  \/ \E s \in Starts : PlayOk(s)
  \/ \E s \in Starts : FilesetOk(s)
  \/ \E s \in Starts : CreateOk(s)
  \/ \E s \in Starts : AwaitFail(s)
  \/ pauseRecording
  \/ rerecord
  \/ stopRecording
  \/ \E r \in Starts, n \in 0..MaxBuf : RecorderStopTask(r, n)
  \/ \E k \in Stops : TranscribeOk(k)
  \/ \E k \in Stops : TranscribeFail(k)
  \/ \E k \in Stops : SummarizeOk(k)
  \/ \E k \in Stops : SummarizeFail(k)
  \/ \E l \in Starts, r \in TickFrames :
       FaceTick(l, r) /\ UNCHANGED <<frameEdits, promptVars>>
  \/ Unmount

Spec == Init /\ [][Next]_vars

(***************************************************************************)
(* The frame loop on its own: a session is recording with the face model   *)
(* loaded and its loop running, and every step is a frame whose detector   *)
(* output is a base frame or is one edit away from the frame before it.   *)
(***************************************************************************)

\* the state Spec reaches by startRecording with every await resolved
InitFace ==
  /\ isRecording = TRUE /\ isPaused = FALSE /\ isRecordingComplete = FALSE
  /\ chunks = <<>> /\ transcript = EmptyText /\ loading = FALSE
  /\ analysis = NullRef /\ analysisLoading = FALSE /\ faceStatus = DashStatus
  /\ mediaRecorderRef = 1 /\ streamRef = 1 /\ chunksRef = <<>>
  /\ faceLandmarkerRef = TRUE /\ nCreates = 1 /\ rafRef = 1
  /\ mounted = TRUE
  /\ nStarts = 1
  /\ startPc = [s \in Starts |-> IF s = 1 THEN "done" ELSE "none"]
  /\ streamLive = [s \in Starts |-> s = 1]
  /\ recState = [s \in Starts |-> IF s = 1 THEN "recording" ELSE "none"]
  /\ recPending = [s \in Starts |-> FALSE]
  /\ nStops = 0
  /\ stopPc = [k \in Stops |-> "none"]
  /\ stopMr = [k \in Stops |-> NullRef]
  /\ stopSession = [k \in Stops |-> 0]
  /\ stopBlob = [k \in Stops |-> <<>>]
  /\ sumArg = [k \in Stops |-> NullRef]
  /\ rafPending = {1}
  /\ alerts = 0
  /\ pauseErrors = 0
  /\ res = NoFaceRes /\ frameEdits = 0
  /\ QUESTIONS = <<1>> /\ question = 1 /\ promptPc = "ready"
  /\ recDelivered = [s \in Starts |-> <<>>]
  /\ sinceRerecord = FALSE /\ sinceRelease = FALSE

\* the detector outputs drawn for the next frame
NextFrames ==
  IF res = NoFaceRes THEN BaseFrames
  ELSE {NoFaceRes} \cup (IF frameEdits < MaxEdits THEN Variants(res) ELSE {})

NextFace ==
  \E l \in Starts, r \in NextFrames :
    /\ FaceTick(l, r)
    /\ frameEdits' = IF r = NoFaceRes \/ res = NoFaceRes THEN 0
                     ELSE frameEdits + 1
    /\ UNCHANGED promptVars

SpecFace == InitFace /\ [][NextFace]_vars

\* The platform runs every queued task and every fetch settles: the stop
\* task of a stopped recorder eventually runs, and each transcription and
\* summarization call eventually resolves or rejects.
Fairness ==
  /\ \A r \in Starts : WF_vars(\E n \in 0..MaxBuf : RecorderStopTask(r, n))
  /\ \A k \in Stops : WF_vars(TranscribeOk(k) \/ TranscribeFail(k))
  /\ \A k \in Stops : WF_vars(SummarizeOk(k) \/ SummarizeFail(k))

SpecLive == Init /\ [][Next]_vars /\ Fairness

(***************************************************************************)
(* The prompt selector (components/questions.tsx).  The list is fetched    *)
(* once, by a top-level await of the module; the selected prompt is state  *)
(* of Practice, "" before the selector's mount effect has run.  A prompt   *)
(* is a positive number, "" is EmptyText and undefined is Undefined.       *)
(***************************************************************************)

MaxPrompts == 3
RandSteps == 6

Prompts == 1..MaxPrompts

PromptLists == UNION {[1..n -> Prompts] : n \in 0..MaxPrompts}

\* QUESTIONS[i] of JavaScript, zero-based: undefined outside the list
at(list, i) == IF i + 1 \in DOMAIN list THEN list[i + 1] ELSE Undefined

\* !question of JavaScript: "" and undefined are falsy
falsy(q) == q = EmptyText \/ q = Undefined

\* Math.floor(Math.random() * n), Math.random() being u / RandSteps
floorRandom(u, n) == (u * n) \div RandSteps

\* everything but the selector: the session, untouched by the selector
sessionVars == <<uiVars, fragVars, faceStatus, mediaRecorderRef, streamRef,
                 faceLandmarkerRef, nCreates, mounted, nStarts, startPc, streamLive,
                 recVars, stopVars, loopVars, alerts, pauseErrors, res,
                 frameEdits, histVars>>

InitPrompt ==
  /\ InitSession
  /\ QUESTIONS = <<>> /\ question = EmptyText /\ promptPc = "fetching"

\* getInterviewQuestions resolves with the list of the response
FetchOk(list) ==
  /\ promptPc = "fetching"
  /\ QUESTIONS' = list
  /\ promptPc' = "loaded"
  /\ UNCHANGED <<question, sessionVars>>

\* getInterviewQuestions throws: the module does not load, no selector
FetchFail ==
  /\ promptPc = "fetching"
  /\ promptPc' = "failed"
  /\ UNCHANGED <<QUESTIONS, question, sessionVars>>

\* the mount effect of InterviewQuestions
MountSelector ==
  /\ promptPc = "loaded"
  /\ promptPc' = "ready"
  /\ question' = IF falsy(question) THEN at(QUESTIONS, 0) ELSE question
  /\ UNCHANGED <<QUESTIONS, sessionVars>>

handleSelect(i) ==
  /\ promptPc = "ready"
  /\ i \in DOMAIN QUESTIONS
  /\ question' = QUESTIONS[i]
  /\ UNCHANGED <<QUESTIONS, promptPc, sessionVars>>

randomizeQuestion(u) ==
  /\ promptPc = "ready"
  /\ question' = at(QUESTIONS, floorRandom(u, Len(QUESTIONS)))
  /\ UNCHANGED <<QUESTIONS, promptPc, sessionVars>>

NextPrompt ==
  \/ \E list \in PromptLists : FetchOk(list)
  \/ FetchFail
  \/ MountSelector
  \/ \E i \in 1..MaxPrompts : handleSelect(i)
  \/ \E u \in 0..(RandSteps - 1) : randomizeQuestion(u)

SpecPrompt == InitPrompt /\ [][NextPrompt]_vars

(***************************************************************************)
(* Properties                                                              *)
(***************************************************************************)

LiveStreams == {s \in Starts : streamLive[s]}
DeviceHeld  == LiveStreams # {}
\* stop k is the stop of the latest session: startRecording has not been
\* invoked since it was clicked
Latest(k) == stopSession[k] = nStarts
\* the fragments of recorder r within a sequence of fragments
FragmentsOf(r, frags) == SelectSeq(frags, LAMBDA f : f.rec = r)

\* C1: once stopRecording has passed the audio to the transcription call,
\* the audio holds every non-empty fragment the session's recorder (the
\* one stopRecording found in mediaRecorderRef) delivers, the final flush
\* included, in order and once, and that recorder delivers nothing later.
C1_AudioHasEveryFragment ==
  \A k \in Stops :
    ( /\ stopPc[k] \notin {"none", "flush"}
      /\ stopMr[k] # NullRef
      /\ stopMr[k] = stopSession[k] )
    => LET s == stopSession[k]
       IN /\ recState[s] \notin Active
          /\ FragmentsOf(s, stopBlob[k]) = recDelivered[s]

\* C2: after a failed transcription call of the latest session the retry
\* notice has been shown and the results view is not what the session
\* settles in.
C2_FailedTranscriptionNotComplete ==
  \A k \in Stops :
    (stopPc[k] = "tfailed" /\ Latest(k))
      => (alerts > 0 /\ ~isRecordingComplete)

\* C3: the step in which getUserMedia rejects for the latest startRecording
\* leaves the session Idle (isRecording false), without the recording
\* controls, and surfaces the failure to the user.
C3_DeviceFailureStaysIdle ==
  [][\A s \in Starts :
       (startPc[s] = "gum" /\ startPc'[s] = "gumfailed" /\ s = nStarts)
         => (~isRecording' /\ ~RecordingView' /\ alerts' > alerts)]_vars

\* C4: from rerecord until startRecording is next invoked the session is
\* Idle with empty chunks and chunksRef, empty transcript, null analysis and
\* no live capture track.
C4_RerecordLeavesIdle ==
  sinceRerecord =>
    /\ ~isRecording /\ ~isRecordingComplete
    /\ chunks = <<>> /\ chunksRef = <<>>
    /\ transcript = EmptyText
    /\ analysis = NullRef
    /\ ~DeviceHeld

\* C5: the step that processes a successful transcription response leaves
\* the transcript set to the returned text and loading false while the
\* summarization response is still outstanding; unless a new session was
\* started meanwhile, that state renders the results view.
C5_TranscriptShownBeforeSummary ==
  [][\A k \in Stops :
       (stopPc[k] = "transcribe" /\ stopPc'[k] # "transcribe"
          /\ stopPc'[k] # "tfailed")
       => /\ stopPc'[k] = "summarize"
          /\ transcript' = TextOf(k)
          /\ ~loading'
          /\ (Latest(k) => isRecordingComplete' /\ ~isRecording')]_vars

\* a transcript is on display in the results view while its summary is
\* still awaited
C5_Witness ==
  \E k \in Stops :
    /\ stopPc[k] = "summarize"
    /\ ResultsView /\ ~loading /\ analysisLoading
    /\ transcript = TextOf(k)

\* C6: the step that processes a failed summarization of the latest session
\* leaves the session Complete with that session's transcript, analysis
\* null, analysisLoading false, and raises no alert.
C6_SummaryFailureShowsNoAnalysis ==
  [][\A k \in Stops :
       (stopPc[k] = "summarize" /\ stopPc'[k] = "sfailed" /\ Latest(k))
       => /\ isRecordingComplete'
          /\ transcript' = TextOf(k)
          /\ analysis' = NullRef
          /\ ~analysisLoading'
          /\ alerts' = alerts]_vars

\* C7: at most one acquired capture stream has live tracks.
C7_OneLiveStream == Cardinality(LiveStreams) <= 1

\* C8: from the transcription call of stopRecording until startRecording
\* is next invoked no capture track is live and no recorder is recording
\* or paused.
C8_ReleasedAfterStop ==
  sinceRelease =>
    /\ ~DeviceHeld
    /\ \A r \in Starts : recState[r] \notin Active

\* C9: once stopRecording has released the device or rerecord has returned,
\* and until startRecording is next invoked, no frame callback of the loop
\* is pending.
C9_LoopCancelled ==
  (sinceRelease \/ sinceRerecord) => rafPending = {}

\* C10: after the component is unmounted the capture device is released
\* and no frame callback is pending, in every later state.
C10_TeardownReleases ==
  ~mounted => (~DeviceHeld /\ rafPending = {})

\* C11: the step in which startRecording begins a session leaves chunks and
\* chunksRef empty, the transcript empty and the analysis null, whatever
\* the state before it held.
C11_StartClearsSession ==
  [][nStarts' # nStarts
       => /\ chunks' = <<>> /\ chunksRef' = <<>>
          /\ transcript' = EmptyText
          /\ analysis' = NullRef]_vars

\* a second session has just begun after a first one that delivered
\* fragments and was transcribed and summarized
C11_Witness ==
  /\ nStarts = 2 /\ startPc[2] = "gum"
  /\ recDelivered[1] # <<>>
  /\ \E k \in Stops : stopPc[k] = "ok"
  /\ chunks = <<>> /\ chunksRef = <<>>
  /\ transcript = EmptyText /\ analysis = NullRef

\* C12: a transcription or summarization response of a stop that belongs
\* to an earlier session than the latest one changes none of transcript,
\* analysis, loading and analysisLoading.
C12_NoStaleResult ==
  [][\A k \in Stops :
       ( /\ stopSession[k] < nStarts
         /\ stopPc[k] \in {"transcribe", "summarize"}
         /\ stopPc'[k] # stopPc[k] )
       => /\ transcript' = transcript /\ analysis' = analysis
          /\ loading' = loading /\ analysisLoading' = analysisLoading]_vars

\* a step of pauseRecording: it toggled isPaused (startRecording changes
\* nStarts and rerecord clears isRecording when they reset isPaused) or it
\* threw
PauseStep ==
  \/ isPaused' # isPaused /\ nStarts' = nStarts /\ isRecording'
  \/ pauseErrors' # pauseErrors

\* C13: after every Pause/Resume click that reaches the recorder, isPaused
\* is true exactly when the state of the recorder in mediaRecorderRef is
\* paused, and chunks and chunksRef are what they were before the click.
C13_PauseFlagMatchesRecorder ==
  [][PauseStep
       => /\ isPaused' <=> (recState'[mediaRecorderRef'] = "paused")
          /\ chunks' = chunks /\ chunksRef' = chunksRef]_vars

\* C14: a Pause/Resume click leaves every capture stream as live as it
\* was, leaves chunks, chunksRef, transcript, analysis, isRecording and
\* isRecordingComplete unchanged, and changes nothing but isPaused and the
\* state of the recorder in mediaRecorderRef, which stays recording or
\* paused.
C14_PauseFrame ==
  [][PauseStep
       => /\ UNCHANGED <<streamRef, streamLive, chunks, chunksRef,
                         transcript, analysis, isRecording,
                         isRecordingComplete>>
          /\ UNCHANGED <<loading, analysisLoading, faceStatus, res,
                         frameEdits, promptVars, mediaRecorderRef,
                         faceLandmarkerRef, nCreates, recPending,
                         recDelivered, loopVars, stopVars, startPc, nStarts,
                         mounted, alerts>>
          /\ \A r \in Starts :
                recState'[r] # recState[r]
                  => /\ r = mediaRecorderRef
                     /\ recState[r] \in Active /\ recState'[r] \in Active
                     /\ streamLive'[r]]_vars

\* a Pause click has paused the recorder of a session whose capture stream
\* is live
C14_Witness ==
  /\ RecordingView /\ isPaused
  /\ mediaRecorderRef # NullRef /\ recState[mediaRecorderRef] = "paused"
  /\ streamRef # NullRef /\ streamLive[streamRef]

C16_SummarizeAfterTranscribe ==
  [][\A k \in Stops :
       /\ (sumArg'[k] # sumArg[k] \/ (stopPc'[k] = "summarize"
                                        /\ stopPc[k] # "summarize"))
          => /\ stopPc[k] = "transcribe" /\ stopPc'[k] = "summarize"
             /\ sumArg[k] = NullRef
             /\ sumArg'[k] = TextOf(k)
       /\ stopPc'[k] = "tfailed" => sumArg'[k] = NullRef
       /\ stopPc[k] = "tfailed" => stopPc'[k] = "tfailed"]_vars

\* the summarization call of a stop is in flight with the text its
\* transcription returned, while the transcription of another stop failed
C16_Witness ==
  \E k, j \in Stops :
    /\ stopPc[k] = "summarize" /\ sumArg[k] = TextOf(k)
    /\ stopPc[j] = "tfailed" /\ sumArg[j] = NullRef

\* the sequence a is a prefix of the sequence b
IsPrefix(a, b) == Len(a) <= Len(b) /\ SubSeq(b, 1, Len(a)) = a

\* a step of rerecord (the only handler that sets sinceRerecord)
RerecordStep == sinceRerecord' /\ ~sinceRerecord

\* C17: every step leaves chunksRef and chunks as a prefix of their new
\* values, except the step of startRecording that begins a session and a
\* step of rerecord, which leave both empty.
C17_AppendOnly ==
  [][IF nStarts' # nStarts \/ RerecordStep
       THEN chunksRef' = <<>> /\ chunks' = <<>>
       ELSE IsPrefix(chunksRef, chunksRef') /\ IsPrefix(chunks, chunks')]_vars

\* during one session two fragments were appended one after the other
C17_Witness ==
  /\ Len(chunksRef) = 2 /\ Len(chunks) = 2
  /\ chunksRef[1].rec # chunksRef[2].rec

\* the frame last processed shows a face / carries landmarks
FaceDetected   == Len(res.faceBlendshapes) >= 1
HasLandmarks   == Len(res.faceLandmarks) >= 1
\* the blend-shape map of the frame last processed
BlendMap       == toBlendshapeMap(res.faceBlendshapes[1].categories)

\* C18: for the blend-shape map of every frame drawn (scores in [0,1],
\* absent keys counted as 0), each of the eight scores emotionScores
\* returns lies in [0,1].
C18_EmotionScoresInRange ==
  (FaceDetected /\ \A key \in DOMAIN BlendMap : BlendMap[key] \in 0..One)
    => \A i \in DOMAIN Labels :
         /\ emotionScores(BlendMap)[Labels[i]] >= 0
         /\ emotionScores(BlendMap)[Labels[i]] <= One

\* the frame with every blend-shape score at 1 has been processed
C18_Witness ==
  /\ FaceDetected
  /\ DOMAIN BlendMap = {KeyOrder[i] : i \in DOMAIN KeyOrder}
  /\ \A key \in DOMAIN BlendMap : BlendMap[key] = One
  /\ faceStatus.confidence = One

\* C19: after a frame with a face the face status holds a top-3 list of
\* exactly three pairs, each a label with the score emotionScores gives
\* it, the labels distinct and the scores non-increasing; the emotion is
\* the label and the confidence the score of the first pair, and no
\* emotion scores more than that.
C19_TopThree ==
  FaceDetected =>
    LET t   == faceStatus.top3
        all == emotionScores(BlendMap)
    IN /\ Len(t) = 3
       /\ \A i \in 1..3 :
            /\ \E n \in DOMAIN Labels : t[i].label = Labels[n]
            /\ t[i].score = all[t[i].label]
       /\ t[1].label # t[2].label /\ t[1].label # t[3].label
       /\ t[2].label # t[3].label
       /\ t[1].score >= t[2].score /\ t[2].score >= t[3].score
       /\ faceStatus.emotion = t[1].label
       /\ faceStatus.confidence = t[1].score
       /\ \A n \in DOMAIN Labels : all[Labels[n]] <= faceStatus.confidence

\* a frame with a face has set a top-3 list of three different positive
\* scores led by an emotion other than the first and the last label
C19_Witness ==
  /\ FaceDetected
  /\ Len(faceStatus.top3) = 3
  /\ faceStatus.top3[1].score > faceStatus.top3[2].score
  /\ faceStatus.top3[2].score > faceStatus.top3[3].score
  /\ faceStatus.top3[3].score > 0
  /\ faceStatus.emotion \notin {"happy", "neutral"}

\* C20: for the landmarks of every frame drawn, an eye of zero width
\* included, the openness of the left and of the right eye lies in [0,1].
C20_OpennessInRange ==
  HasLandmarks =>
    \A eye \in {EyeL, EyeR} :
      LET o == openness(res.faceLandmarks[1], eye.top, eye.bot, eye.left,
                        eye.right)
      IN o >= 0 /\ o <= One

\* a frame whose left eye has zero width and lids apart has been processed
C20_Witness ==
  /\ FaceDetected /\ HasLandmarks
  /\ res.faceLandmarks[1][EyeL.left] = res.faceLandmarks[1][EyeL.right]
  /\ res.faceLandmarks[1][EyeL.top] # res.faceLandmarks[1][EyeL.bot]
  /\ faceStatus.leftOpen = One

\* C21: every step in which a frame is processed leaves the face status
\* equal to faceStatusOf of that frame's detector output, whatever the
\* frames before it and the status on display were.
C21_StatusOfFrameAlone ==
  [][(res' # res \/ faceStatus' # faceStatus)
       => faceStatus' = faceStatusOf(res')]_vars

\* a frame with a face has been processed after a different frame with a
\* face, and the status it set is less confident than a certain one
C21_Witness ==
  /\ FaceDetected /\ frameEdits >= 1
  /\ faceStatus = faceStatusOf(res)
  /\ faceStatus.confidence < One

\* a step of the frame loop: a frame with a new detector output was
\* processed, or only the frame handle moved to another loop (finishStart
\* changes startPc when it sets rafRef; the handlers that stop the loop
\* clear rafRef)
TickStep ==
  \/ res' # res
  \/ rafRef' # rafRef /\ rafRef' # NullRef /\ startPc' = startPc

\* C22: a tick of the frame loop changes nothing but the face status, the
\* detector output and rafRef: the lifecycle flags, chunks, chunksRef, the
\* transcript, the analysis and the audio handed to transcription are
\* unchanged, and so are the streams, the recorders and the pending loops.
C22_TickFrame ==
  [][TickStep
       => /\ UNCHANGED <<isRecording, isPaused, isRecordingComplete, loading,
                         analysisLoading, chunks, chunksRef, transcript,
                         analysis, stopBlob>>
          /\ UNCHANGED <<mediaRecorderRef, streamRef, faceLandmarkerRef,
                         nCreates, mounted, nStarts, startPc, streamLive,
                         recVars, nStops, stopPc, stopMr, stopSession, sumArg,
                         rafPending, alerts, pauseErrors, recDelivered>>]_vars

\* a frame with a face has been processed while a fragment is in the
\* sequence and the audio of an earlier stop is with the transcription
C22_Witness ==
  /\ RecordingView /\ FaceDetected /\ faceStatus = faceStatusOf(res)
  /\ chunksRef # <<>>
  /\ \E k \in Stops : stopPc[k] = "transcribe"

\* C23: once the selector has initialised, the current prompt is a member of
\* the prompt list, for every list size, the empty fetched list included.
C23_PromptIsMember ==
  promptPc = "ready" => \E i \in DOMAIN QUESTIONS : question = QUESTIONS[i]

\* a step in which a summarization call settles, with or without a summary
SummarizeStep ==
  \E k \in Stops : stopPc[k] = "summarize" /\ stopPc'[k] # "summarize"

\* C24: when the summarization call resolves, successfully or not, only
\* analysis and analysisLoading change: the three view flags, loading, the
\* transcript and the fragment sequence, and everything else, stay as they
\* were.
C24_SummarizeFrame ==
  [][SummarizeStep =>
       /\ UNCHANGED <<isRecording, isPaused, isRecordingComplete, loading,
                      transcript, chunks, chunksRef>>
       /\ UNCHANGED <<faceStatus, res, mediaRecorderRef, streamRef,
                      faceLandmarkerRef, nCreates, mounted, nStarts, startPc,
                      streamLive, recVars, nStops, stopMr, stopSession,
                      stopBlob, sumArg, loopVars, alerts, pauseErrors,
                      recDelivered, promptVars>>]_vars

\* C24: one summarization call has succeeded and another has failed, with
\* fragments recorded and a transcript on display
C24_Witness ==
  /\ \E k \in Stops : stopPc[k] = "ok"
  /\ \E k \in Stops : stopPc[k] = "sfailed"
  /\ ~analysisLoading /\ isRecordingComplete /\ chunksRef # <<>>
  /\ transcript # OgTranscript

\* the tracks of streamRef.current have ended (or there is no stream) and
\* rafRef holds no handle
Released ==
  /\ streamRef # NullRef => ~streamLive[streamRef]
  /\ rafRef = NullRef

\* the unmount cleanup runs: it is the release steps and nothing else
CleanupStep == mounted /\ ~mounted'

\* C25: teardown is idempotent: when the device is already released and the
\* loop already cancelled, the release steps (stopFaceLoop, stop of the tracks
\* of streamRef.current) change nothing, and a cleanup run in such a state
\* leaves every state variable as it was; no step of it can throw.
C25_TeardownIdempotent ==
  /\ [](Released =>
          /\ LoopAfterStop = rafPending
          /\ LiveAfterTrackStop(streamLive, streamRef) = streamLive
          /\ StateAfterTrackStop(recState, streamRef) = recState
          /\ PendingAfterTrackStop(recState, recPending, streamRef)
               = recPending)
  /\ [][Released /\ CleanupStep =>
          UNCHANGED <<uiVars, fragVars, faceStatus, res, mediaRecorderRef,
                      streamRef, faceLandmarkerRef, nCreates, nStarts,
                      startPc, streamLive, recVars, stopVars, loopVars,
                      alerts, pauseErrors, promptVars>>]_vars

\* C25: the release steps have run in stopRecording and in the cleanup, on a
\* session that had a stream and recorded fragments
C25_Witness ==
  /\ ~mounted /\ Released /\ streamRef # NullRef /\ chunksRef # <<>>
  /\ \E k \in Stops : stopPc[k] \in {"transcribe", "summarize", "ok"}

\* the fragments of an audio blob
FragmentsIn(blob) == {blob[i] : i \in DOMAIN blob}

\* invocation k of stopRecording calls transcribeAudio in this step
TranscribeCall(k) == stopPc[k] # "transcribe" /\ stopPc'[k] = "transcribe"

\* C26: each stop issues one transcription call, from its own click or from
\* the stop event it awaits and never again once the call is out; after a
\* transcription failure no later call carries a fragment of the failed call,
\* and a later call belongs to a stop of a newer startRecording.
C26_OneCallPerStop ==
  [][\A k \in Stops :
       /\ TranscribeCall(k) => stopPc[k] \in {"none", "flush"}
       /\ TranscribeCall(k) =>
            \A j \in Stops :
              stopPc[j] = "tfailed" =>
                /\ stopSession'[k] > stopSession[j]
                /\ FragmentsIn(stopBlob'[k]) \cap FragmentsIn(stopBlob[j])
                     = {}]_vars

\* C27: the face-landmark model is created at most once: across any sequence
\* of sessions, overlapping startRecording invocations included,
\* FaceLandmarker.createFromOptions is called no more than once.
C27_CreatedAtMostOnce == nCreates <= 1

\* C28: stopRecording acts only on the session being stopped, also when a new
\* session is started while it awaits: the audio it sends holds only
\* fragments of the recorder of the stopped session, and the tracks it stops
\* are those of the stream of the stopped session.
C28_StopActsOnOwnSession ==
  [][\A k \in Stops :
       TranscribeCall(k) =>
         /\ \A f \in FragmentsIn(stopBlob'[k]) : f.rec = stopSession'[k]
         /\ \A s \in Starts :
              streamLive[s] /\ ~streamLive'[s] => s = stopSession'[k]]_vars

\* C29: at most one frame loop is scheduled at any time: at most one
\* animation-frame callback of the loop is pending and, when one is pending,
\* rafRef holds its handle, so that one stopFaceLoop cancels the whole loop.
C29_OneLoop ==
  /\ Cardinality(rafPending) <= 1
  /\ rafPending # {} => rafRef \in rafPending

\* stopRecording invocation k has run to its end
Settled(k) == stopPc[k] \in {"ok", "sfailed", "tfailed"}

\* C30: if the stop event of the recorder eventually fires and every remote
\* call eventually succeeds or fails, every stopRecording invocation
\* eventually runs to its end, by transcription failure, summarization
\* failure or success, and reaches a state with loading and analysisLoading
\* both false.
C30_StopSettles ==
  \A k \in Stops :
    (stopPc[k] # "none") ~> (Settled(k) /\ ~loading /\ ~analysisLoading)

\* C30: one invocation has ended by a transcription failure, another by a
\* summarization failure, and both flags are false
C30_Witness ==
  /\ \E k \in Stops : stopPc[k] = "tfailed"
  /\ \E k \in Stops : stopPc[k] = "sfailed"
  /\ ~loading /\ ~analysisLoading

\* the startRecording invocation of the current session has created and
\* started its recorder
SessionRecorderStarted == nStarts >= 1 /\ startPc[nStarts] = "done"

\* C31: pauseRecording never calls pause or resume on a recorder that is not
\* active: no click throws, and a click made before startRecording has
\* created and started the recorder of the session, in the first session or
\* a later one, leaves isPaused unchanged.
C31_PauseOnlyOnActive ==
  [][/\ pauseErrors' = pauseErrors
     /\ (PauseStep /\ ~SessionRecorderStarted) => isPaused' = isPaused]_vars

\* the views whose render condition holds (part_002:253, 263, 323)
ViewsRendered ==
  {v \in {"start", "recording", "results"} :
     \/ v = "start" /\ ~isRecording /\ ~isRecordingComplete
     \/ v = "recording" /\ isRecording /\ ~isRecordingComplete
     \/ v = "results" /\ isRecordingComplete}

\* a Start Recording button is rendered (start view and results view)
StartButtonShown ==
  (~isRecording /\ ~isRecordingComplete) \/ isRecordingComplete

\* the Pause, Stop and Rerecord buttons are rendered (recording view)
ControlsShown == isRecording /\ ~isRecordingComplete

\* C32: isRecording and isRecordingComplete are never both true, so exactly
\* one of the three views is rendered and the Pause/Stop/Rerecord controls
\* are never shown together with a Start Recording button.
C32_OneView ==
  /\ ~(isRecording /\ isRecordingComplete)
  /\ Cardinality(ViewsRendered) = 1
  /\ ~(ControlsShown /\ StartButtonShown)

\* C32: a second session was started from the results view and is being
\* recorded while a response of the first is still awaited
C32_Witness ==
  /\ isRecording /\ ~isRecordingComplete /\ nStarts >= 2
  /\ \E k \in Stops : stopPc[k] \in {"transcribe", "summarize"}

\* C33: the two stores of the fragment sequence agree: the chunks state and
\* chunksRef.current hold the same fragments in the same order, after any
\* interleaving of start, rerecord and recorder data deliveries.
C33_StoresAgree == chunks = chunksRef

\* C33: both stores hold the deliveries of two recorders, which arrived
\* after a rerecord and a second start
C33_Witness ==
  /\ Len(chunksRef) = 2 /\ chunks = chunksRef
  /\ chunksRef[1].rec # chunksRef[2].rec

\* the queued task of recorder r runs in this step: its data is delivered
DeliveryStep(r) == recPending[r] /\ ~recPending'[r]

\* C34: a data delivery of size zero is never appended: every element of the
\* fragment sequence, in the state and in the ref, has a size greater than
\* zero, and a delivery either leaves the sequence unchanged or appends one
\* fragment of a size greater than zero.
C34_NoEmptyFragment ==
  /\ [](/\ \A i \in DOMAIN chunksRef : chunksRef[i].size > 0
        /\ \A i \in DOMAIN chunks : chunks[i].size > 0)
  /\ [][\A r \in Starts :
         DeliveryStep(r) =>
           \/ UNCHANGED <<chunks, chunksRef>>
           \/ \E n \in 1..MaxBuf :
                /\ chunksRef' = Append(chunksRef, [rec |-> r, size |-> n])
                /\ chunks' = Append(chunks, [rec |-> r, size |-> n])]_vars

\* C34: a recorder that was started on a live stream and then stopped has
\* delivered data of size zero, while the sequence holds a fragment of
\* another recorder
C34_Witness ==
  \E r \in Starts :
    /\ streamLive[r] /\ recState[r] = "inactive" /\ ~recPending[r]
    /\ recDelivered[r] = <<>>
    /\ chunksRef # <<>> /\ \A i \in DOMAIN chunksRef : chunksRef[i].rec # r

====
